---- MODULE Spec2Model ----
(***************************************************************************)
(* Model of the BoardGameGeek crawler (src/Crawler/Crawler.py).            *)
(*                                                                         *)
(* Texts are sequences of tokens.  A token is one punctuation character    *)
(* ("[", "]", "{", "}", the double quote, the backslash, ",", ":", "/",    *)
(* ".", "-", " ") or one maximal run of letters or of digits ("items",     *)
(* "1995").  No scanner or pattern of the program looks inside such a run  *)
(* except the escape handling of unescape_json_unicode, whose inputs are   *)
(* therefore given one character per token.                                *)
(***************************************************************************)
EXTENDS Integers, Sequences, FiniteSets, TLC

\* ------------------------------------------------------------------ bounds
MaxElems == 2        \* elements of a generated well-formed array
MaxBody == 4         \* tokens after the "[" of an arbitrary (malformed) array
MaxUnescLen == 7     \* characters of an input of unescape_json_unicode
MaxWideLen == 3      \* ... of an input over the wider alphabet
MaxCats == 2         \* categories of the window main walks through
MaxItemsPerPage == 2 \* items of one API page
MaxBefore == 2       \* objects before the malformed element of an array
TARGET_PER_CAT == 2  \* line 34 sets 50; scaled down so that a crawl reaches it

\* ------------------------------------------------------- program constants
MAX_PAGES_PER_CAT == 3
MAX_UPGRADE_PER_CAT == 120
UPGRADE_IMAGES == TRUE

\* ------------------------------------------------------------------ tokens
LB == "["
RB == "]"
LC == "{"
RC == "}"
DQ == "\""
BS == "\\"
CO == ","
CL == ":"
SP == " "
SL == "/"

IsWs(t) == t = SP

\* str.lower() / re.IGNORECASE on the words the model uses
Lower(t) ==
  CASE t = "Items" -> "items"
    [] t = "BoardGameExpansion" -> "boardgameexpansion"
    [] OTHER -> t

\* ------------------------------------------------------------ sequences
NoSlice == [ok |-> FALSE, val |-> <<>>]
Slice(s) == [ok |-> TRUE, val |-> s]

RECURSIVE SkipWs(_, _)
\* \s* : the first position >= p that holds no whitespace (may be Len+1)
SkipWs(s, p) == IF p <= Len(s) /\ IsWs(s[p]) THEN SkipWs(s, p + 1) ELSE p

At(s, p) == IF p >= 1 /\ p <= Len(s) THEN s[p] ELSE "<eof>"

\* ------------------------------------------------ _slice_array_after_key
\* key_rx: "(?:items|linkeditems|results)"\s*:\s*\[   (IGNORECASE)
\* the position of the "[" that ends a match starting at p, or 0
KeyRxMatchAt(text, p) ==
  IF At(text, p) = DQ
     /\ Lower(At(text, p + 1)) \in {"items", "linkeditems", "results"}
     /\ At(text, p + 2) = DQ
  THEN LET q == SkipWs(text, p + 3)
       IN IF At(text, q) = CL
          THEN LET r == SkipWs(text, q + 1)
               IN IF At(text, r) = LB THEN r ELSE 0
          ELSE 0
  ELSE 0

\* items:\[  (IGNORECASE): the letters "items" may be the tail of a longer word
ItemsRxMatchAt(text, p) ==
  IF Lower(At(text, p)) \in {"items", "linkeditems"}
     /\ At(text, p + 1) = CL
     /\ At(text, p + 2) = LB
  THEN p + 2
  ELSE 0

RxMatchAt(text, p, rx) ==
  IF rx = "key_rx" THEN KeyRxMatchAt(text, p) ELSE ItemsRxMatchAt(text, p)

RECURSIVE RxSearchFrom(_, _, _)
\* re.search: the leftmost match; the position of its final "[", or 0
RxSearchFrom(text, p, rx) ==
  IF p > Len(text) THEN 0
  ELSE IF RxMatchAt(text, p, rx) # 0 THEN RxMatchAt(text, p, rx)
  ELSE RxSearchFrom(text, p + 1, rx)

RECURSIVE RxSearchKeyFrom(_, _, _)
RxSearchKeyFrom(text, p, key) ==
  IF p > Len(text) THEN 0
  ELSE IF KeyRxMatchAt(text, p) # 0 /\ Lower(At(text, p + 1)) = key
       THEN KeyRxMatchAt(text, p)
  ELSE RxSearchKeyFrom(text, p + 1, key)

\* mutant of RxSearch: one search per candidate key, in the order of the list
RxSearchPriority(text, rx) ==
  IF rx # "key_rx" THEN RxSearchFrom(text, 1, rx)
  ELSE IF RxSearchKeyFrom(text, 1, "items") # 0 THEN RxSearchKeyFrom(text, 1, "items")
  ELSE IF RxSearchKeyFrom(text, 1, "linkeditems") # 0
       THEN RxSearchKeyFrom(text, 1, "linkeditems")
  ELSE RxSearchKeyFrom(text, 1, "results")

RxSearch(text, rx) == RxSearchFrom(text, 1, rx)

RECURSIVE NextOpen(_, _)
\* the while loop of lines 246-247
NextOpen(text, i) ==
  IF i <= Len(text) /\ text[i] # LB THEN NextOpen(text, i + 1) ELSE i

\* mutant of SliceStep: a backslash inside a string escapes nothing
SliceStepNoEsc(ch, depth, in_str, esc) ==
  IF in_str
  THEN IF ch = DQ THEN [depth |-> depth, in_str |-> FALSE, esc |-> esc, ret |-> FALSE]
       ELSE [depth |-> depth, in_str |-> TRUE, esc |-> esc, ret |-> FALSE]
  ELSE IF ch = DQ THEN [depth |-> depth, in_str |-> TRUE, esc |-> esc, ret |-> FALSE]
       ELSE IF ch = LB THEN [depth |-> depth + 1, in_str |-> FALSE, esc |-> esc, ret |-> FALSE]
       ELSE IF ch = RB
            THEN [depth |-> depth - 1, in_str |-> FALSE, esc |-> esc, ret |-> depth - 1 = 0]
       ELSE [depth |-> depth, in_str |-> FALSE, esc |-> esc, ret |-> FALSE]

\* the body of the scanning loop (lines 256-274) for one character: the new
\* (depth, in_str, esc) and whether the function returns at this character
SliceStep(ch, depth, in_str, esc) ==
  IF in_str
  THEN IF esc THEN [depth |-> depth, in_str |-> TRUE, esc |-> FALSE, ret |-> FALSE]
       ELSE IF ch = BS THEN [depth |-> depth, in_str |-> TRUE, esc |-> TRUE, ret |-> FALSE]
       ELSE IF ch = DQ THEN [depth |-> depth, in_str |-> FALSE, esc |-> esc, ret |-> FALSE]
       ELSE [depth |-> depth, in_str |-> TRUE, esc |-> esc, ret |-> FALSE]
  ELSE IF ch = DQ THEN [depth |-> depth, in_str |-> TRUE, esc |-> esc, ret |-> FALSE]
       ELSE IF ch = LB THEN [depth |-> depth + 1, in_str |-> FALSE, esc |-> esc, ret |-> FALSE]
       ELSE IF ch = RB
            THEN [depth |-> depth - 1, in_str |-> FALSE, esc |-> esc, ret |-> depth - 1 = 0]
       ELSE [depth |-> depth, in_str |-> FALSE, esc |-> esc, ret |-> FALSE]

RECURSIVE SliceLoopPartial(_, _, _, _, _, _)
\* mutant of SliceLoop: at the end of the text, what was scanned is returned
SliceLoopPartial(text, j, depth, in_str, esc, start) ==
  IF j > Len(text) THEN Slice(SubSeq(text, start, Len(text)))
  ELSE LET st == SliceStep(text[j], depth, in_str, esc)
       IN IF st.ret THEN Slice(SubSeq(text, start, j))
          ELSE SliceLoopPartial(text, j + 1, st.depth, st.in_str, st.esc, start)

RECURSIVE SliceLoop(_, _, _, _, _, _)
\* for j in range(i, len(text)): ... ; return None
SliceLoop(text, j, depth, in_str, esc, start) ==
  IF j > Len(text) THEN NoSlice
  ELSE LET st == SliceStep(text[j], depth, in_str, esc)
       IN IF st.ret THEN Slice(SubSeq(text, start, j))
          ELSE SliceLoop(text, j + 1, st.depth, st.in_str, st.esc, start)

slice_array_after_key(text, rx) ==
  LET m == RxSearch(text, rx)
  IN IF m = 0 THEN NoSlice
     ELSE LET i == IF text[m] # LB THEN NextOpen(text, m) ELSE m
          IN IF i > Len(text) THEN NoSlice
             ELSE SliceLoop(text, i, 0, FALSE, FALSE, i)

\* -------------------------------------------- _split_array_items_jsonish
RECURSIVE LStrip(_)
LStrip(s) == IF s # <<>> /\ IsWs(Head(s)) THEN LStrip(Tail(s)) ELSE s

RECURSIVE RStrip(_)
RStrip(s) ==
  IF s # <<>> /\ IsWs(s[Len(s)]) THEN RStrip(SubSeq(s, 1, Len(s) - 1)) ELSE s

Strip(s) == RStrip(LStrip(s))

\* lines 283-287
StripBrackets(array_text) ==
  LET s0 == Strip(array_text)
      s1 == IF s0 # <<>> /\ Head(s0) = LB THEN Tail(s0) ELSE s0
  IN IF s1 # <<>> /\ s1[Len(s1)] = RB THEN SubSeq(s1, 1, Len(s1) - 1) ELSE s1

\* mutant of SplitStep: braces are counted inside quoted strings too
SplitStepNoStrings(s, idx, st) ==
  LET ch == s[idx]
  IN IF ch = LC
     THEN [st EXCEPT !.obj_start = IF st.depth = 0 THEN idx ELSE @,
                     !.depth = @ + 1]
     ELSE IF ch = RC
          THEN IF st.depth - 1 = 0 /\ st.obj_start # 0
               THEN [st EXCEPT !.depth = @ - 1,
                               !.parts = Append(@, SubSeq(s, st.obj_start, idx)),
                               !.obj_start = 0]
               ELSE [st EXCEPT !.depth = @ - 1]
     ELSE st

\* the body of the loop of lines 295-317 for one character; obj_start = 0 is None
SplitStep(s, idx, st) ==
  LET ch == s[idx]
  IN IF st.in_str
     THEN IF st.esc THEN [st EXCEPT !.esc = FALSE]
          ELSE IF ch = BS THEN [st EXCEPT !.esc = TRUE]
          ELSE IF ch = DQ THEN [st EXCEPT !.in_str = FALSE]
          ELSE st
     ELSE IF ch = DQ THEN [st EXCEPT !.in_str = TRUE]
     ELSE IF ch = LC
          THEN [st EXCEPT !.obj_start = IF st.depth = 0 THEN idx ELSE @,
                          !.depth = @ + 1]
     ELSE IF ch = RC
          THEN IF st.depth - 1 = 0 /\ st.obj_start # 0
               THEN [st EXCEPT !.depth = @ - 1,
                               !.parts = Append(@, SubSeq(s, st.obj_start, idx)),
                               !.obj_start = 0]
               ELSE [st EXCEPT !.depth = @ - 1]
     ELSE st

RECURSIVE SplitLoop(_, _, _)
SplitLoop(s, idx, st) ==
  IF idx > Len(s) THEN st.parts ELSE SplitLoop(s, idx + 1, SplitStep(s, idx, st))

split_array_items_jsonish(array_text) ==
  LET s == StripBrackets(array_text)
  IN SplitLoop(s, 1, [depth |-> 0, in_str |-> FALSE, esc |-> FALSE,
                      obj_start |-> 0, parts |-> <<>>])

\* ------------------------------------------------ unescape_json_unicode
HexChars ==
  {"0", "1", "2", "3", "4", "5", "6", "7", "8", "9",
   "a", "b", "c", "d", "e", "f", "A", "B", "C", "D", "E", "F"}

\* chr(int(m.group(1), 16)) on the code points the model's inputs can spell
Chr(h) ==
  CASE h = <<"0", "0", "5", "c">> -> BS
    [] h = <<"0", "0", "2", "2">> -> DQ
    [] h = <<"0", "0", "4", "1">> -> "A"
    [] h = <<"0", "0", "0", "0">> -> "<U+0000>"
    [] OTHER -> "<chr>"

IsHexEscAt(s, p) ==
  /\ p + 5 <= Len(s)
  /\ s[p] = BS
  /\ s[p + 1] = "u"
  /\ \A k \in 2..5 : s[p + k] \in HexChars

RECURSIVE HexSub(_, _)
\* _hex_esc_re.sub(...): leftmost non-overlapping matches, left to right
HexSub(s, p) ==
  IF p > Len(s) THEN <<>>
  ELSE IF IsHexEscAt(s, p)
       THEN <<Chr(SubSeq(s, p + 2, p + 5))>> \o HexSub(s, p + 6)
       ELSE <<s[p]>> \o HexSub(s, p + 1)

RECURSIVE Replace2(_, _, _, _)
\* s.replace(<backslash><c>, new): non-overlapping occurrences, left to right
Replace2(s, p, c, new) ==
  IF p > Len(s) THEN <<>>
  ELSE IF p + 1 <= Len(s) /\ s[p] = BS /\ s[p + 1] = c
       THEN <<new>> \o Replace2(s, p + 2, c, new)
       ELSE <<s[p]>> \o Replace2(s, p + 1, c, new)

\* line 116, in the order written
UnescapeLine116(s) ==
  Replace2(Replace2(Replace2(s, 1, DQ, DQ), 1, SL, SL), 1, BS, BS)

\* line 117, in the order written
UnescapeLine117(s) ==
  Replace2(Replace2(Replace2(Replace2(Replace2(s,
    1, "b", "<0x08>"), 1, "f", "<0x0c>"), 1, "n", "<LF>"), 1, "r", "<CR>"), 1, "t", "<TAB>")

unescape_json_unicode(s) ==
  IF s = <<>> THEN s ELSE UnescapeLine117(UnescapeLine116(HexSub(s, 1)))

\* ------------------------------------------- field patterns (lines 78-103)
DigitTokens == {"0", "1", "2", "3", "7", "1995"}

IntOf(t) ==
  CASE t = "0" -> 0 [] t = "1" -> 1 [] t = "2" -> 2 [] t = "3" -> 3
    [] t = "7" -> 7 [] t = "1995" -> 1995

\* str(n) for the numbers IntOf gives
StrOf(n) ==
  CASE n = 0 -> "0" [] n = 1 -> "1" [] n = 2 -> "2" [] n = 3 -> "3"
    [] n = 7 -> "7" [] n = 1995 -> "1995"

NoMatch == [ok |-> FALSE, val |-> <<>>]
Match(v) == [ok |-> TRUE, val |-> v]

\* "<key>"\s*:\s* at p (IGNORECASE): the position after it, or 0
KeyColonAt(chunk, p, keys) ==
  IF At(chunk, p) = DQ /\ Lower(At(chunk, p + 1)) \in keys /\ At(chunk, p + 2) = DQ
  THEN LET q == SkipWs(chunk, p + 3)
       IN IF At(chunk, q) = CL THEN SkipWs(chunk, q + 1) ELSE 0
  ELSE 0

RECURSIVE StrBodyEnd(_, _)
\* ((?:\\.|[^"\\])*)" from q: the position of the closing quote, or 0
StrBodyEnd(chunk, q) ==
  IF q > Len(chunk) THEN 0
  ELSE IF chunk[q] = DQ THEN q
  ELSE IF chunk[q] = BS
       THEN IF q + 1 <= Len(chunk) THEN StrBodyEnd(chunk, q + 2) ELSE 0
  ELSE StrBodyEnd(chunk, q + 1)

\* _rx_str(key) matched at p: the captured group
RxStrAt(chunk, p, key) ==
  LET v == KeyColonAt(chunk, p, {key})
      e == StrBodyEnd(chunk, v + 1)
  IN IF v # 0 /\ At(chunk, v) = DQ /\ e # 0
     THEN Match(SubSeq(chunk, v + 1, e - 1))
     ELSE NoMatch

RECURSIVE RxStrFrom(_, _, _)
RxStrFrom(chunk, p, key) ==
  IF p > Len(chunk) THEN NoMatch
  ELSE LET m == RxStrAt(chunk, p, key)
       IN IF m.ok THEN m ELSE RxStrFrom(chunk, p + 1, key)

\* RX_NAME, RX_HREF, RX_URL, RX_SUBTYPE, RX_TYPE, RX_IMAGEURL, RX_IMAGE .search
RxStr(chunk, key) == RxStrFrom(chunk, 1, key)

\* RX_ID_OBJID matched at p: "(?:objectid|id)"\s*:\s*"?(\d+)"?
RxIdAt(chunk, p) ==
  LET v == KeyColonAt(chunk, p, {"objectid", "id"})
      d == IF At(chunk, v) = DQ THEN v + 1 ELSE v
  IN IF v # 0 /\ At(chunk, d) \in DigitTokens THEN Match(<<At(chunk, d)>>) ELSE NoMatch

RECURSIVE RxIdFrom(_, _)
RxIdFrom(chunk, p) ==
  IF p > Len(chunk) THEN NoMatch
  ELSE LET m == RxIdAt(chunk, p)
       IN IF m.ok THEN m ELSE RxIdFrom(chunk, p + 1)

RxId(chunk) == RxIdFrom(chunk, 1)

\* RX_YEAR matched at p: "yearpublished"\s*:\s*"?(-?\d+(?:\.\d+)?)"? ; the value
\* is int(float(group)): the integer part, with its sign
RxYearAt(chunk, p) ==
  LET v == KeyColonAt(chunk, p, {"yearpublished"})
      d == IF At(chunk, v) = DQ THEN v + 1 ELSE v
      n == IF At(chunk, d) = "-" THEN d + 1 ELSE d
  IN IF v # 0 /\ At(chunk, n) \in DigitTokens
     THEN Match(<<IF At(chunk, d) = "-" THEN 0 - IntOf(At(chunk, n)) ELSE IntOf(At(chunk, n))>>)
     ELSE NoMatch

RECURSIVE RxYearFrom(_, _)
RxYearFrom(chunk, p) ==
  IF p > Len(chunk) THEN NoMatch
  ELSE LET m == RxYearAt(chunk, p)
       IN IF m.ok THEN m ELSE RxYearFrom(chunk, p + 1)

RxYear(chunk) == RxYearFrom(chunk, 1)

RECURSIVE FirstQuote(_, _)
\* (.*?)" with DOTALL: the position of the next double quote from q, or 0
FirstQuote(chunk, q) ==
  IF q > Len(chunk) THEN 0
  ELSE IF chunk[q] = DQ THEN q
  ELSE FirstQuote(chunk, q + 1)

\* "original"\s*:\s*"(.*?)" at q
OriginalAt(chunk, q) ==
  LET v == KeyColonAt(chunk, q, {"original"})
  IN IF v # 0 /\ At(chunk, v) = DQ /\ FirstQuote(chunk, v + 1) # 0
     THEN Match(SubSeq(chunk, v + 1, FirstQuote(chunk, v + 1) - 1))
     ELSE NoMatch

RECURSIVE LazyOriginal(_, _)
\* [^{}]*?"original"... : the nearest "original" reached without crossing a brace
LazyOriginal(chunk, q) ==
  IF q > Len(chunk) THEN NoMatch
  ELSE IF OriginalAt(chunk, q).ok THEN OriginalAt(chunk, q)
  ELSE IF chunk[q] \in {LC, RC} THEN NoMatch
  ELSE LazyOriginal(chunk, q + 1)

\* RX_IMG_ORIGINAL matched at p: "images"\s*:\s*\{[^{}]*?"original"\s*:\s*"(.*?)"
RxImgOriginalAt(chunk, p) ==
  LET v == KeyColonAt(chunk, p, {"images"})
  IN IF v # 0 /\ At(chunk, v) = LC THEN LazyOriginal(chunk, v + 1) ELSE NoMatch

RECURSIVE RxImgOriginalFrom(_, _)
RxImgOriginalFrom(chunk, p) ==
  IF p > Len(chunk) THEN NoMatch
  ELSE LET m == RxImgOriginalAt(chunk, p)
       IN IF m.ok THEN m ELSE RxImgOriginalFrom(chunk, p + 1)

RxImgOriginal(chunk) == RxImgOriginalFrom(chunk, 1)

\* ------------------------------------- parse_api_items_from_text: one chunk
EmptyItem == [k \in {} |-> 0]

Has(it, k) == k \in DOMAIN it

\* mutant of ParseItem: the direct image aliases are tried before images.original
ParseItemDirectFirst(chunk) ==
  LET mid == RxId(chunk)
      mname == RxStr(chunk, "name")
      myear == RxYear(chunk)
      mhref == RxStr(chunk, "href")
      murl == RxStr(chunk, "url")
      msub == RxStr(chunk, "subtype")
      mtype == RxStr(chunk, "type")
      morig == RxImgOriginal(chunk)
      mimgurl == RxStr(chunk, "imageurl")
      mimg == RxStr(chunk, "image")
      f1 == IF mid.ok
            THEN ("id" :> IntOf(mid.val[1])) @@ ("objectid" :> IntOf(mid.val[1]))
            ELSE EmptyItem
      f2 == IF mname.ok THEN "name" :> unescape_json_unicode(mname.val) ELSE EmptyItem
      f3 == IF myear.ok THEN "yearpublished" :> myear.val[1] ELSE EmptyItem
      f4 == IF mhref.ok THEN "href" :> unescape_json_unicode(mhref.val) ELSE EmptyItem
      f5 == IF murl.ok THEN "url" :> unescape_json_unicode(murl.val) ELSE EmptyItem
      f6 == IF msub.ok THEN "subtype" :> msub.val ELSE EmptyItem
      f7 == IF mtype.ok THEN "type" :> mtype.val ELSE EmptyItem
      f8 == IF mimgurl.ok THEN "imageurl" :> unescape_json_unicode(mimgurl.val)
            ELSE IF mimg.ok THEN "image" :> unescape_json_unicode(mimg.val)
            ELSE IF morig.ok THEN "images_original" :> unescape_json_unicode(morig.val)
            ELSE EmptyItem
  IN f1 @@ f2 @@ f3 @@ f4 @@ f5 @@ f6 @@ f7 @@ f8

\* lines 353-404: the dict built from one chunk
ParseItem(chunk) ==
  LET mid == RxId(chunk)
      mname == RxStr(chunk, "name")
      myear == RxYear(chunk)
      mhref == RxStr(chunk, "href")
      murl == RxStr(chunk, "url")
      msub == RxStr(chunk, "subtype")
      mtype == RxStr(chunk, "type")
      morig == RxImgOriginal(chunk)
      mimgurl == RxStr(chunk, "imageurl")
      mimg == RxStr(chunk, "image")
      f1 == IF mid.ok
            THEN ("id" :> IntOf(mid.val[1])) @@ ("objectid" :> IntOf(mid.val[1]))
            ELSE EmptyItem
      f2 == IF mname.ok THEN "name" :> unescape_json_unicode(mname.val) ELSE EmptyItem
      f3 == IF myear.ok THEN "yearpublished" :> myear.val[1] ELSE EmptyItem
      f4 == IF mhref.ok THEN "href" :> unescape_json_unicode(mhref.val) ELSE EmptyItem
      f5 == IF murl.ok THEN "url" :> unescape_json_unicode(murl.val) ELSE EmptyItem
      f6 == IF msub.ok THEN "subtype" :> msub.val ELSE EmptyItem
      f7 == IF mtype.ok THEN "type" :> mtype.val ELSE EmptyItem
      f8 == IF morig.ok THEN "images_original" :> unescape_json_unicode(morig.val)
            ELSE IF mimgurl.ok THEN "imageurl" :> unescape_json_unicode(mimgurl.val)
            ELSE IF mimg.ok THEN "image" :> unescape_json_unicode(mimg.val)
            ELSE EmptyItem
  IN f1 @@ f2 @@ f3 @@ f4 @@ f5 @@ f6 @@ f7 @@ f8

\* lines 350-406
ParseItems(raw_objs_) == [k \in 1..Len(raw_objs_) |-> ParseItem(raw_objs_[k])]

\* lines 332-340: which pattern and which text the array is looked up in
LocateArray(text_) ==
  IF LStrip(text_) # <<>> /\ Head(LStrip(text_)) = LB
  THEN slice_array_after_key(<<"items", CL>> \o text_, "items_rx")
  ELSE slice_array_after_key(text_, "key_rx")

\* ------------------------------------------- functions of one item dict
NoInt == [ok |-> FALSE, val |-> 0]
SomeInt(n) == [ok |-> TRUE, val |-> n]

\* it.get(k) or "" for a string-valued key
StrOrEmpty(it, k) == IF Has(it, k) THEN it[k] ELSE <<>>

LowerSeq(v) == [k \in 1..Len(v) |-> Lower(v[k])]

\* ID_RE matched at p: /boardgame(?:expansion)?/(\d+)   (case-sensitive)
IdReAt(v, p) ==
  /\ At(v, p) = SL
  /\ At(v, p + 1) \in {"boardgame", "boardgameexpansion"}
  /\ At(v, p + 2) = SL
  /\ At(v, p + 3) \in DigitTokens

RECURSIVE IdReSearchFrom(_, _)
IdReSearchFrom(v, p) ==
  IF p > Len(v) THEN NoInt
  ELSE IF IdReAt(v, p) THEN SomeInt(IntOf(v[p + 3]))
  ELSE IdReSearchFrom(v, p + 1)

IdReSearch(v) == IdReSearchFrom(v, 1)

\* line 163: it.get("objectid") or it.get("id"); both hold integers here
ObjectidOrId(it) ==
  IF Has(it, "objectid") /\ it["objectid"] # 0 THEN SomeInt(it["objectid"])
  ELSE IF Has(it, "id") THEN SomeInt(it["id"])
  ELSE NoInt

\* mutant of get_game_id: "if gid:" in place of the isinstance tests
get_game_id_truthy(it) ==
  IF ObjectidOrId(it).ok /\ ObjectidOrId(it).val # 0 THEN ObjectidOrId(it)
  ELSE IF IdReSearch(StrOrEmpty(it, "href")).ok THEN IdReSearch(StrOrEmpty(it, "href"))
  ELSE IdReSearch(StrOrEmpty(it, "url"))

\* lines 162-176
get_game_id(it) ==
  IF ObjectidOrId(it).ok THEN ObjectidOrId(it)
  ELSE IF IdReSearch(StrOrEmpty(it, "href")).ok THEN IdReSearch(StrOrEmpty(it, "href"))
  ELSE IdReSearch(StrOrEmpty(it, "url"))

\* "/boardgameexpansion/" in v
HasExpansionSegment(v) ==
  \E p \in 1..Len(v) :
    At(v, p) = SL /\ At(v, p + 1) = "boardgameexpansion" /\ At(v, p + 2) = SL

\* line 179: (it.get("subtype") or it.get("type") or "").lower()
SubtypeOrType(it) ==
  LowerSeq(IF StrOrEmpty(it, "subtype") # <<>> THEN it["subtype"]
           ELSE StrOrEmpty(it, "type"))

\* lines 178-186
is_expansion(it) ==
  \/ SubtypeOrType(it) = <<"boardgameexpansion">>
  \/ HasExpansionSegment(LowerSeq(StrOrEmpty(it, "href")))
  \/ HasExpansionSegment(LowerSeq(StrOrEmpty(it, "url")))

\* lines 128-135; urljoin(SITE_ROOT, path) of a rooted path is the root and the path
to_abs(path) ==
  IF path = <<>> THEN <<>>
  ELSE IF At(path, 1) = SL /\ At(path, 2) = SL THEN <<"https:">> \o path
  ELSE IF At(path, 1) = SL THEN <<"https://boardgamegeek.com">> \o path
  ELSE path

\* mutant of pick_image_from_item: the imageurl alias is tried first
pick_image_alias_first(it) ==
  IF StrOrEmpty(it, "imageurl") # <<>> THEN to_abs(it["imageurl"])
  ELSE IF StrOrEmpty(it, "images_original") # <<>> THEN to_abs(it["images_original"])
  ELSE IF StrOrEmpty(it, "image") # <<>> THEN to_abs(it["image"])
  ELSE IF Has(it, "images")
       THEN IF StrOrEmpty(it["images"], "original") # <<>> THEN to_abs(it["images"]["original"])
            ELSE IF StrOrEmpty(it["images"], "large") # <<>> THEN to_abs(it["images"]["large"])
            ELSE IF StrOrEmpty(it["images"], "medium") # <<>> THEN to_abs(it["images"]["medium"])
            ELSE IF StrOrEmpty(it["images"], "small") # <<>> THEN to_abs(it["images"]["small"])
            ELSE <<>>
  ELSE <<>>

\* lines 188-203; "images" is a dict when present
pick_image_from_item(it) ==
  IF StrOrEmpty(it, "images_original") # <<>> THEN to_abs(it["images_original"])
  ELSE IF StrOrEmpty(it, "imageurl") # <<>> THEN to_abs(it["imageurl"])
  ELSE IF StrOrEmpty(it, "image") # <<>> THEN to_abs(it["image"])
  ELSE IF Has(it, "images")
       THEN IF StrOrEmpty(it["images"], "original") # <<>> THEN to_abs(it["images"]["original"])
            ELSE IF StrOrEmpty(it["images"], "large") # <<>> THEN to_abs(it["images"]["large"])
            ELSE IF StrOrEmpty(it["images"], "medium") # <<>> THEN to_abs(it["images"]["medium"])
            ELSE IF StrOrEmpty(it["images"], "small") # <<>> THEN to_abs(it["images"]["small"])
            ELSE <<>>
  ELSE <<>>

\* str(y), as tokens
YearStr(y) == IF y < 0 THEN <<"-", StrOf(0 - y)>> ELSE <<StrOf(y)>>

\* lines 205-207
parse_year(it) ==
  IF Has(it, "yearpublished") /\ it["yearpublished"] # 0 THEN YearStr(it["yearpublished"])
  ELSE IF Has(it, "year") /\ it["year"] # 0 THEN YearStr(it["year"])
  ELSE <<>>

\* lines 209-217
item_url(it) ==
  IF StrOrEmpty(it, "href") # <<>> THEN to_abs(it["href"])
  ELSE IF StrOrEmpty(it, "url") # <<>> THEN to_abs(it["url"])
  ELSE IF ObjectidOrId(it).ok /\ ObjectidOrId(it).val # 0
       THEN to_abs(<<SL, "boardgame", SL, StrOf(ObjectidOrId(it).val)>>)
  ELSE <<>>

\* line 489: (it.get("name") or it.get("objectname") or "").strip()
ItemName(it) ==
  Strip(IF StrOrEmpty(it, "name") # <<>> THEN it["name"] ELSE StrOrEmpty(it, "objectname"))

\* ------------------------------------------------------- response texts
\* The array elements a generated well-formed array is made of, each with the
\* top-level {...} groups it holds (groups not enclosed in another brace group).
Tpl ==
  << [toks |-> <<LC, DQ, "a", DQ, CL, DQ, "x", DQ, RC>>,
      groups |-> << <<LC, DQ, "a", DQ, CL, DQ, "x", DQ, RC>> >>],
     \* {"a":"y{z}"}
     [toks |-> <<LC, DQ, "a", DQ, CL, DQ, "y", LC, "z", RC, DQ, RC>>,
      groups |-> << <<LC, DQ, "a", DQ, CL, DQ, "y", LC, "z", RC, DQ, RC>> >>],
     \* {"a":{"b":1}}
     [toks |-> <<LC, DQ, "a", DQ, CL, LC, DQ, "b", DQ, CL, "1", RC, RC>>,
      groups |-> << <<LC, DQ, "a", DQ, CL, LC, DQ, "b", DQ, CL, "1", RC, RC>> >>],
     \* {"a":"\"}"}
     [toks |-> <<LC, DQ, "a", DQ, CL, DQ, BS, DQ, RC, DQ, RC>>,
      groups |-> << <<LC, DQ, "a", DQ, CL, DQ, BS, DQ, RC, DQ, RC>> >>],
     \* {"a":["]"]}
     [toks |-> <<LC, DQ, "a", DQ, CL, LB, DQ, RB, DQ, RB, RC>>,
      groups |-> << <<LC, DQ, "a", DQ, CL, LB, DQ, RB, DQ, RB, RC>> >>],
     \* {"a":"\\"}
     [toks |-> <<LC, DQ, "a", DQ, CL, DQ, BS, BS, DQ, RC>>,
      groups |-> << <<LC, DQ, "a", DQ, CL, DQ, BS, BS, DQ, RC>> >>],
     \* {"id":7}
     [toks |-> <<LC, DQ, "id", DQ, CL, "7", RC>>,
      groups |-> << <<LC, DQ, "id", DQ, CL, "7", RC>> >>],
     \* 1
     [toks |-> <<"1">>, groups |-> << >>],
     \* "}{"
     [toks |-> <<DQ, RC, LC, DQ>>, groups |-> << >>],
     \* [{}]
     [toks |-> <<LB, LC, RC, RB>>, groups |-> << <<LC, RC>> >>] >>

ElemSeqs(n) == UNION {[1..k -> 1..Len(Tpl)] : k \in 0..n}

CandidateKeys == <<"items", "linkeditems", "results">>
IsCandidate(key) == \E k \in 1..Len(CandidateKeys) : Lower(key) = CandidateKeys[k]
DocKeys == {"items", "linkeditems", "results", "Items", "other"}

RECURSIVE RenderElems(_)
RenderElems(elems) ==
  IF elems = <<>> THEN <<>>
  ELSE IF Len(elems) = 1 THEN Tpl[elems[1]].toks
  ELSE Tpl[elems[1]].toks \o <<CO>> \o RenderElems(Tail(elems))

RenderArray(elems) == <<LB>> \o RenderElems(elems) \o <<RB>>

RenderKey(key, sp) ==
  <<DQ, key, DQ>> \o (IF sp THEN <<SP, CL, SP>> ELSE <<CL>>)

RenderMember(m, sp) == RenderKey(m.key, sp) \o RenderArray(m.elems)

RECURSIVE RenderMembers(_, _)
RenderMembers(members, sp) ==
  IF members = <<>> THEN <<>>
  ELSE IF Len(members) = 1 THEN RenderMember(members[1], sp)
  ELSE RenderMember(members[1], sp) \o <<CO>> \o RenderMembers(Tail(members), sp)

Spaces(n) == [k \in 1..n |-> SP]

\* kind "keyed": an object whose members are arrays under keys;
\* kind "whole": the text is the array, after doc.lead blanks;
\* kind "raw":   "items":[ followed by arbitrary tokens;
\* kind "bare":  doc.lead blanks and [ followed by arbitrary tokens
Render(d) ==
  CASE d.kind = "keyed" -> <<LC>> \o RenderMembers(d.members, d.sp) \o <<RC>>
    [] d.kind = "whole" -> Spaces(d.lead) \o RenderArray(d.members[1].elems)
    [] d.kind = "raw" -> <<DQ, "items", DQ, CL, LB>> \o d.body
    [] d.kind = "bare" -> Spaces(d.lead) \o <<LB>> \o d.body

Member(key, elems) == [key |-> key, elems |-> elems]
Doc(kind, members, sp, lead, body) ==
  [kind |-> kind, members |-> members, sp |-> sp, lead |-> lead, body |-> body]

BodyTokens == {LB, RB, DQ, BS, "x"}
Bodies(n) == UNION {[1..k -> BodyTokens] : k \in 0..n}

\* one array under each key, without and (under "results") with blanks
\* around the colon
KeyedDocs1(n) ==
  {Doc("keyed", <<Member(key, e)>>, FALSE, 0, <<>>) : key \in DocKeys, e \in ElemSeqs(n)}
    \cup {Doc("keyed", <<Member("results", e)>>, TRUE, 0, <<>>) : e \in ElemSeqs(1)}
\* two arrays of at most one element each
KeyedDocs2(n) ==
  {Doc("keyed", <<Member(k1, e1), Member(k2, e2)>>, FALSE, 0, <<>>) :
     k1 \in DocKeys, k2 \in DocKeys, e1 \in ElemSeqs(1), e2 \in ElemSeqs(1)}
WholeDocs(n) ==
  {Doc("whole", <<Member("", e)>>, FALSE, lead, <<>>) : e \in ElemSeqs(n), lead \in 0..1}
RawDocs(n) == {Doc("raw", <<>>, FALSE, 0, b) : b \in Bodies(n)}
BareDocs(n) == {Doc("bare", <<>>, FALSE, lead, b) : b \in Bodies(n), lead \in 0..1}

ParseDocs(elems, body) ==
  KeyedDocs1(elems) \cup KeyedDocs2(elems) \cup WholeDocs(elems)
    \cup RawDocs(body) \cup BareDocs(body)
NoDoc == Doc("none", <<>>, FALSE, 0, <<>>)

\* ------------------------------------------------------------ item chunks
\* One chunk is { and the fields chosen, in the order id, name, yearpublished,
\* href, url, subtype, type, and }.
Field(key, val) == <<DQ, key, DQ, CL>> \o val
Quoted(v) == <<DQ>> \o v \o <<DQ>>

IdOpts == {"none", "id:0", "id:1", "id:q2", "objectid:1", "objectid:q0"}
NameOpts == {"none", "empty", "blank", "Catan"}
YearOpts == {"none", "0", "q1995"}
HrefOpts == {"none", "bg2", "exp2", "list3"}
UrlOpts == {"none", "bg1", "EXP1"}
SubOpts == {"none", "boardgame", "BoardGameExpansion"}
TypeOpts == {"none", "boardgameexpansion"}

IdField(o) ==
  CASE o = "none" -> <<>>
    [] o = "id:0" -> << Field("id", <<"0">>) >>
    [] o = "id:1" -> << Field("id", <<"1">>) >>
    [] o = "id:q2" -> << Field("id", Quoted(<<"2">>)) >>
    [] o = "objectid:1" -> << Field("objectid", <<"1">>) >>
    [] o = "objectid:q0" -> << Field("objectid", Quoted(<<"0">>)) >>

NameField(o) ==
  CASE o = "none" -> <<>>
    [] o = "empty" -> << Field("name", Quoted(<<>>)) >>
    [] o = "blank" -> << Field("name", Quoted(<<SP>>)) >>
    [] o = "Catan" -> << Field("name", Quoted(<<SP, "Catan">>)) >>

YearField(o) ==
  CASE o = "none" -> <<>>
    [] o = "0" -> << Field("yearpublished", <<"0">>) >>
    [] o = "q1995" -> << Field("yearpublished", Quoted(<<"1995">>)) >>

\* paths are written as the API writes them, each slash escaped
HrefField(o) ==
  CASE o = "none" -> <<>>
    [] o = "bg2" -> << Field("href", Quoted(<<BS, SL, "boardgame", BS, SL, "2", BS, SL, "x">>)) >>
    [] o = "exp2" -> << Field("href", Quoted(<<BS, SL, "boardgameexpansion", BS, SL, "2">>)) >>
    [] o = "list3" -> << Field("href", Quoted(<<BS, SL, "geeklist", BS, SL, "3">>)) >>

UrlField(o) ==
  CASE o = "none" -> <<>>
    [] o = "bg1" -> << Field("url", Quoted(<<BS, SL, "boardgame", BS, SL, "1">>)) >>
    [] o = "EXP1" -> << Field("url", Quoted(<<BS, SL, "BoardGameExpansion", BS, SL, "1">>)) >>

SubField(o) == IF o = "none" THEN <<>> ELSE << Field("subtype", Quoted(<<o>>)) >>
TypeField(o) == IF o = "none" THEN <<>> ELSE << Field("type", Quoted(<<o>>)) >>

RECURSIVE JoinFields(_)
JoinFields(fs) ==
  IF fs = <<>> THEN <<>>
  ELSE IF Len(fs) = 1 THEN fs[1]
  ELSE fs[1] \o <<CO>> \o JoinFields(Tail(fs))

RenderChunk(c) ==
  <<LC>> \o JoinFields(IdField(c.id) \o NameField(c.name) \o YearField(c.year)
                        \o HrefField(c.href) \o UrlField(c.url)
                        \o SubField(c.sub) \o TypeField(c.type)) \o <<RC>>

ChunkDocs ==
  [id : IdOpts, name : NameOpts, year : YearOpts, href : HrefOpts, url : UrlOpts,
   sub : SubOpts, type : TypeOpts]

NoChunkDoc ==
  [id |-> "none", name |-> "none", year |-> "none", href |-> "none", url |-> "none",
   sub |-> "none", type |-> "none"]

\* the chunks the crawl is fed: a chunk with a name and a year and none of
\* href, url, subtype, type, under each of four id fields; that chunk with
\* id 1 changed in one place (the name or the year absent or empty, or one of
\* the four present); with no id and its href or its url; with id 1 and
\* subtype and type both
CrawlChunkDocs ==
  {c \in ChunkDocs :
     LET plain(fs) == \A f \in fs : c[f] = "none"
         named == c.name = "Catan" /\ c.year = "q1995"
         changed == Cardinality({f \in {"href", "url", "sub", "type"} : c[f] # "none"})
                      + (IF c.name = "Catan" THEN 0 ELSE 1)
                      + (IF c.year = "q1995" THEN 0 ELSE 1)
     IN /\ c.id \in {"none", "id:0", "id:1", "id:q2"}
        /\ c.name # "empty"
        /\ c.href # "list3"
        /\ \/ changed = 0
           \/ c.id = "id:1" /\ changed = 1
           \/ c.id = "none" /\ named /\ plain({"sub", "type"})
                /\ <<c.href, c.url>> \in {<<"bg2", "none">>, <<"none", "bg1">>}
           \/ c.id = "id:1" /\ named /\ plain({"href", "url"})
                /\ c.sub = "boardgame" /\ c.type # "none"}

RECURSIVE SetToSeq(_)
SetToSeq(S) ==
  IF S = {} THEN <<>>
  ELSE LET x == CHOOSE y \in S : TRUE IN <<x>> \o SetToSeq(S \ {x})

\* the items the crawl is fed, numbered
CrawlChunkSeq == SetToSeq(CrawlChunkDocs)
RECURSIVE ItemsOfChunks(_)
ItemsOfChunks(n) ==
  IF n = 0 THEN <<>>
  ELSE Append(ItemsOfChunks(n - 1), ParseItem(RenderChunk(CrawlChunkSeq[n])))

CrawlItemSeq == ItemsOfChunks(Len(CrawlChunkSeq))

\* ------------------------------------------------------------------ state
VARIABLES
  pc,          \* where the modelled run stands
  doc,         \* how the input text was built (not read by the program)
  text,        \* parse_api_items_from_text: its argument
  array_text,  \* ... the located array, or None
  raw_objs,    \* ... the chunks
  items,       \* ... the returned list of dicts
  u_in,        \* unescape_json_unicode: its argument
  u_out,       \* ... its result
  cdoc,        \* how the chunk of the item was built (not read by the program)
  it,          \* get_game_id, is_expansion: their argument
  gid_out,     \* get_game_id: its result
  exp_out,     \* is_expansion: its result
  img_out,     \* pick_image_from_item: its result
  cat,         \* main: the index of the category in the window
  page,        \* crawl_category_via_api: the page requested
  page_len,    \* ... the number of items of the fetched page
  idx,         \* ... the index of the item in the page
  rows,        \* ... the rows of the category so far
  upgraded,    \* ... the images looked up on the game's page
  seen_ids,    \* main: the ids already emitted
  all_rows,    \* main: the rows of the categories done
  last,        \* the branch the last item processed left the loop body by
  feed,        \* api_fetch_page: the items the pages are made of
  fetch_fn,    \* which fetch loop runs: api_fetch_page or http_get_text
  attempt,     \* ... the loop index
  resps,       \* ... what each request made so far met
  fetched      \* ... the value returned

vars ==
  <<pc, doc, text, array_text, raw_objs, items, u_in, u_out, cdoc, it, gid_out,
    exp_out, img_out, cat, page, page_len, idx, rows, upgraded, seen_ids, all_rows, last,
    feed, fetch_fn, attempt, resps, fetched>>

parseVars == <<doc, text, array_text, raw_objs, items>>
unescVars == <<u_in, u_out>>
itemVars == <<cdoc, it, gid_out, exp_out, img_out>>
crawlVars == <<cat, page, page_len, idx, rows, upgraded, seen_ids, all_rows, last, feed>>
fetchVars == <<fetch_fn, attempt, resps, fetched>>

ParseIdle ==
  /\ doc = NoDoc
  /\ text = <<>>
  /\ array_text = NoSlice
  /\ raw_objs = <<>>
  /\ items = <<>>

UnescIdle == u_in = <<>> /\ u_out = <<>>

FetchIdle == fetch_fn = "none" /\ attempt = 0 /\ resps = <<>> /\ fetched = <<>>

ItemIdle ==
  /\ cdoc = NoChunkDoc
  /\ it = EmptyItem
  /\ gid_out = NoInt
  /\ exp_out = FALSE
  /\ img_out = <<>>

CrawlIdle ==
  /\ cat = 0
  /\ page = 0
  /\ page_len = 0
  /\ idx = 0
  /\ rows = <<>>
  /\ upgraded = 0
  /\ seen_ids = {}
  /\ all_rows = <<>>
  /\ last = "none"
  /\ feed = <<>>

\* ----------------------------------------- parse_api_items_from_text
InitParse ==
  /\ \E d \in ParseDocs(MaxElems, MaxBody) : doc = d /\ text = Render(d)
  /\ pc = "locate"
  /\ array_text = NoSlice
  /\ raw_objs = <<>>
  /\ items = <<>>
  /\ UnescIdle
  /\ ItemIdle
  /\ FetchIdle
  /\ CrawlIdle

\* lines 328-343
Locate ==
  /\ pc = "locate"
  /\ IF text = <<>>
     THEN array_text' = NoSlice /\ pc' = "done"
     ELSE /\ array_text' = LocateArray(text)
          /\ pc' = IF array_text'.ok /\ array_text'.val # <<>> THEN "split" ELSE "done"
  /\ UNCHANGED <<doc, text, raw_objs, items, unescVars, itemVars, crawlVars, fetchVars>>

\* lines 346-348
Split ==
  /\ pc = "split"
  /\ raw_objs' = split_array_items_jsonish(array_text.val)
  /\ pc' = IF raw_objs' = <<>> THEN "done" ELSE "extract"
  /\ UNCHANGED <<doc, text, array_text, items, unescVars, itemVars, crawlVars, fetchVars>>

\* lines 350-406
Extract ==
  /\ pc = "extract"
  /\ items' = ParseItems(raw_objs)
  /\ pc' = "done"
  /\ UNCHANGED <<doc, text, array_text, raw_objs, unescVars, itemVars, crawlVars, fetchVars>>

NextParse == Locate \/ Split \/ Extract

SpecParse == InitParse /\ [][NextParse]_vars

\* ------------------------------------------------ what the input contains
RECURSIVE FirstCandidateFrom(_, _)
\* the leftmost member whose key is a candidate key, or 0
FirstCandidateFrom(members, k) ==
  IF k > Len(members) THEN 0
  ELSE IF IsCandidate(members[k].key) THEN k
  ELSE FirstCandidateFrom(members, k + 1)

FirstCandidate(d) == FirstCandidateFrom(d.members, 1)

\* the member of the key that stands first in the candidate list, or 0
PriorityCandidate(d) ==
  LET present(c) == {k \in 1..Len(d.members) : Lower(d.members[k].key) = CandidateKeys[c]}
      cs == {c \in 1..Len(CandidateKeys) : present(c) # {}}
  IN IF cs = {} THEN 0
     ELSE LET c == CHOOSE x \in cs : \A y \in cs : x <= y
          IN CHOOSE k \in present(c) : \A j \in present(c) : k <= j

\* the position in the text of the "[" of member k of a keyed document
MemberOpen(d, k) ==
  1 + Len(RenderMembers(SubSeq(d.members, 1, k - 1), d.sp))
    + (IF k > 1 THEN 1 ELSE 0)
    + Len(RenderKey(d.members[k].key, d.sp)) + 1

\* the position in the text of the "[" of the array the text holds, or 0
ExpectedOpen(d) ==
  CASE d.kind = "keyed" -> IF FirstCandidate(d) = 0 THEN 0 ELSE MemberOpen(d, FirstCandidate(d))
    [] d.kind = "whole" -> d.lead + 1
    [] d.kind = "raw" -> 5
    [] d.kind = "bare" -> d.lead + 1
    [] OTHER -> 0

RECURSIVE Groups(_)
\* the top-level {...} groups of a generated array, in source order
Groups(elems) ==
  IF elems = <<>> THEN <<>> ELSE Tpl[elems[1]].groups \o Groups(Tail(elems))

RECURSIVE QState(_, _, _)
\* reading the text from position o: after position j the reader is outside a
\* quoted string ("out"), inside one ("in"), or inside one just after an
\* escaping backslash ("esc")
QState(t, o, j) ==
  IF j < o THEN "out"
  ELSE LET prev == QState(t, o, j - 1)
       IN CASE prev = "out" -> IF t[j] = DQ THEN "in" ELSE "out"
            [] prev = "in" -> IF t[j] = BS THEN "esc" ELSE IF t[j] = DQ THEN "out" ELSE "in"
            [] prev = "esc" -> "in"

OutsideBracket(t, o, k, b) == t[k] = b /\ QState(t, o, k - 1) = "out"

\* e holds a "]" outside any string at which as many "[" as "]" were seen
BalancedClose(t, o, e) ==
  /\ OutsideBracket(t, o, e, RB)
  /\ Cardinality({k \in o..e : OutsideBracket(t, o, k, LB)})
       = Cardinality({k \in o..e : OutsideBracket(t, o, k, RB)})

FirstBalancedClose(t, o, e) ==
  BalancedClose(t, o, e) /\ \A f \in o..(e - 1) : ~BalancedClose(t, o, f)

\* ------------------------------------------------------------------ claims
\* C1: for a text holding a well-formed array under a known key, locating the
\* array and splitting it gives exactly the top-level {...} groups of that
\* array, in source order, each from its opening brace to its matching closing
\* brace; nested braces and braces inside quoted strings change nothing.
C1_ChunksAreTopLevelGroups ==
  (doc.kind = "keyed" /\ FirstCandidate(doc) # 0 /\ pc \in {"extract", "done"})
    => raw_objs = Groups(doc.members[FirstCandidate(doc)].elems)

C1_Witness ==
  /\ doc.kind = "keyed"
  /\ pc = "extract"
  /\ doc.members[1].key = "items"
  /\ doc.members[1].elems = <<1, 2>>
  /\ raw_objs = <<Tpl[1].toks, Tpl[2].toks>>

\* C2: a returned slice starts at the "[" after the matched key and ends at
\* the first "]" outside any quoted string where the "[" and "]" seen outside
\* quoted strings are equal in number; brackets inside strings do not count
\* and an escaped quote does not end a string.
C2_SliceIsFirstBalancedSpan ==
  (pc # "locate" /\ array_text.ok)
    => /\ ExpectedOpen(doc) # 0
       /\ \E e \in ExpectedOpen(doc)..Len(text) :
            /\ FirstBalancedClose(text, ExpectedOpen(doc), e)
            /\ array_text.val = SubSeq(text, ExpectedOpen(doc), e)

C2_Witness ==
  /\ pc # "locate"
  /\ array_text.ok
  /\ \E k \in ExpectedOpen(doc)..Len(text) :
       text[k] = DQ /\ QState(text, ExpectedOpen(doc), k - 1) = "esc"
  /\ \E k \in ExpectedOpen(doc)..Len(text) :
       text[k] \in {LB, RB} /\ QState(text, ExpectedOpen(doc), k - 1) = "in"

\* C3: when the text ends before the bracket depth is back at zero, the
\* locator returns None, never a slice, and parse_api_items_from_text returns
\* the empty list.
C3_TruncatedGivesNothing ==
  (pc # "locate" /\ ExpectedOpen(doc) # 0
     /\ \A e \in ExpectedOpen(doc)..Len(text) : ~BalancedClose(text, ExpectedOpen(doc), e))
    => (~array_text.ok /\ pc = "done" /\ items = <<>>)

C3_Witness ==
  /\ doc.kind = "raw"
  /\ pc = "done"
  /\ \E k \in 1..Len(doc.body) : doc.body[k] = RB
  /\ QState(text, 5, Len(text)) # "out"
  /\ ~array_text.ok
  /\ items = <<>>

\* C9 as claimed: with arrays under several candidate keys, the array of the
\* key that stands first in the candidate list is selected, wherever the keys
\* stand in the text.
C9_Claimed_CandidateOrderWins ==
  (doc.kind = "keyed" /\ PriorityCandidate(doc) # 0 /\ pc # "locate")
    => array_text = Slice(RenderArray(doc.members[PriorityCandidate(doc)].elems))

\* C9 as amended: the array of the candidate key that stands first in the
\* text is selected, and the slice is anchored at that key's "[".
C9_LeftmostKeyWins ==
  (doc.kind = "keyed" /\ FirstCandidate(doc) # 0 /\ pc # "locate")
    => /\ array_text = Slice(RenderArray(doc.members[FirstCandidate(doc)].elems))
       /\ array_text.val =
            SubSeq(text, MemberOpen(doc, FirstCandidate(doc)),
                   MemberOpen(doc, FirstCandidate(doc)) + Len(array_text.val) - 1)

C9_Witness ==
  /\ doc.kind = "keyed"
  /\ pc # "locate"
  /\ Len(doc.members) = 2
  /\ doc.members[1].key = "results"
  /\ doc.members[2].key = "items"
  /\ doc.members[1].elems # doc.members[2].elems
  /\ array_text = Slice(RenderArray(doc.members[1].elems))

\* C10 as claimed: when the whole text is a well-formed array, with or
\* without leading whitespace, the parser locates that array and returns one
\* item per top-level object of it.
C10_Claimed_WholeTextArray ==
  (doc.kind = "whole" /\ pc = "done")
    => /\ array_text = Slice(RenderArray(doc.members[1].elems))
       /\ Len(items) = Len(Groups(doc.members[1].elems))

\* ------------------------------------------------ unescape_json_unicode
UnescChars == {BS, "n", "u", "0"}
WideChars == {BS, DQ, SL, "b", "f", "n", "r", "t"}

UnescInputs(n, w) ==
  UNION {[1..k -> UnescChars] : k \in 0..n} \cup UNION {[1..k -> WideChars] : k \in 0..w}

InitUnesc ==
  /\ pc = "unescape"
  /\ u_in \in UnescInputs(MaxUnescLen, MaxWideLen)
  /\ u_out = <<>>
  /\ ParseIdle
  /\ ItemIdle
  /\ FetchIdle
  /\ CrawlIdle

\* lines 111-118
Unescape ==
  /\ pc = "unescape"
  /\ u_out' = unescape_json_unicode(u_in)
  /\ pc' = "unescaped"
  /\ UNCHANGED <<u_in, parseVars, itemVars, crawlVars, fetchVars>>

NextUnesc == Unescape

SpecUnesc == InitUnesc /\ [][NextUnesc]_vars

\* ----------------------------------------- get_game_id and is_expansion
InitItem ==
  /\ pc = "get_game_id"
  /\ \E c \in ChunkDocs : cdoc = c /\ it = ParseItem(RenderChunk(c))
  /\ gid_out = NoInt
  /\ exp_out = FALSE
  /\ img_out = <<>>
  /\ ParseIdle
  /\ UnescIdle
  /\ CrawlIdle
  /\ FetchIdle

GetGameId ==
  /\ pc = "get_game_id"
  /\ gid_out' = get_game_id(it)
  /\ pc' = "is_expansion"
  /\ UNCHANGED <<cdoc, it, exp_out, img_out, parseVars, unescVars, crawlVars, fetchVars>>

IsExpansion ==
  /\ pc = "is_expansion"
  /\ exp_out' = is_expansion(it)
  /\ pc' = "item_done"
  /\ UNCHANGED <<cdoc, it, gid_out, img_out, parseVars, unescVars, crawlVars, fetchVars>>

NextItem == GetGameId \/ IsExpansion

SpecItem == InitItem /\ [][NextItem]_vars

\* ------------------------------------- main and crawl_category_via_api
\* what fetch_detail_image_http can return: nothing, or the page's og:image
UpgradeResults == {<<>>, <<"og">>}

\* mutant of SeenAdd: the id is not recorded
SeenAddNothing(seen, gid) == seen

\* line 506
SeenAdd(seen, gid) == seen \cup {gid}

\* mutant of MissingNameOrYear: the rule relaxed to the name alone
MissingName(name, year) == name = <<>>

\* line 491
MissingNameOrYear(name, year) == name = <<>> \/ year = <<>>

\* the row of lines 494-505; gid and src are not part of the tuple written
\* out: they record the id the row was emitted for and the item it came from
\* (its number in feed)
Row(cname, k, gid, hi, upg) ==
  LET url == item_url(feed[k])
      img == pick_image_from_item(feed[k])
      look == UPGRADE_IMAGES /\ upg < MAX_UPGRADE_PER_CAT /\ url # <<>>
  IN [category |-> cname, name |-> ItemName(feed[k]), year |-> parse_year(feed[k]),
      url |-> url, img |-> IF look /\ hi # <<>> THEN hi ELSE img,
      gid |-> gid, src |-> k]

\* mutant of ProcessOutcome: the id is recorded before name and year are looked at
ProcessOutcomeMarkDropped(k, hi, cname, rows_, seen, upg) ==
  LET keep(why) == [rows |-> rows_, seen |-> seen, upgraded |-> upg,
                    appended |-> FALSE, branch |-> why]
      g == get_game_id(feed[k])
  IN IF is_expansion(feed[k]) THEN keep("expansion")
     ELSE IF ~g.ok \/ g.val = 0 THEN keep("no id")
     ELSE IF g.val \in seen THEN keep("seen")
     ELSE IF MissingNameOrYear(ItemName(feed[k]), parse_year(feed[k]))
     THEN [rows |-> rows_, seen |-> SeenAdd(seen, g.val), upgraded |-> upg,
           appended |-> FALSE, branch |-> "no name or year"]
     ELSE [rows |-> Append(rows_, Row(cname, k, g.val, hi, upg)),
           seen |-> SeenAdd(seen, g.val),
           upgraded |-> IF UPGRADE_IMAGES /\ upg < MAX_UPGRADE_PER_CAT
                           /\ item_url(feed[k]) # <<>>
                        THEN upg + 1 ELSE upg,
           appended |-> TRUE, branch |-> "row"]

\* mutant of ProcessOutcome: the check of line 482 is left out
ProcessOutcomeAnyId(k, hi, cname, rows_, seen, upg) ==
  LET keep(why) == [rows |-> rows_, seen |-> seen, upgraded |-> upg,
                    appended |-> FALSE, branch |-> why]
      g == get_game_id(feed[k])
  IN IF is_expansion(feed[k]) THEN keep("expansion")
     ELSE IF g.val \in seen THEN keep("seen")
     ELSE IF MissingNameOrYear(ItemName(feed[k]), parse_year(feed[k]))
     THEN keep("no name or year")
     ELSE [rows |-> Append(rows_, Row(cname, k, g.val, hi, upg)),
           seen |-> SeenAdd(seen, g.val),
           upgraded |-> IF UPGRADE_IMAGES /\ upg < MAX_UPGRADE_PER_CAT
                           /\ item_url(feed[k]) # <<>>
                        THEN upg + 1 ELSE upg,
           appended |-> TRUE, branch |-> "row"]

\* lines 477-506 for item number k of feed: the rows, the ids seen and the
\* upgrade count after it, whether a row was appended, and the branch taken
ProcessOutcome(k, hi, cname, rows_, seen, upg) ==
  LET keep(why) == [rows |-> rows_, seen |-> seen, upgraded |-> upg,
                    appended |-> FALSE, branch |-> why]
      g == get_game_id(feed[k])
  IN IF is_expansion(feed[k]) THEN keep("expansion")
     ELSE IF ~g.ok \/ g.val = 0 THEN keep("no id")
     ELSE IF g.val \in seen THEN keep("seen")
     ELSE IF MissingNameOrYear(ItemName(feed[k]), parse_year(feed[k]))
     THEN keep("no name or year")
     ELSE [rows |-> Append(rows_, Row(cname, k, g.val, hi, upg)),
           seen |-> SeenAdd(seen, g.val),
           upgraded |-> IF UPGRADE_IMAGES /\ upg < MAX_UPGRADE_PER_CAT
                           /\ item_url(feed[k]) # <<>>
                        THEN upg + 1 ELSE upg,
           appended |-> TRUE, branch |-> "row"]

\* the item a row came from
Src(row) == feed[row.src]

InitCrawl ==
  /\ pc = "main"
  /\ cat = 1
  /\ page = 0
  /\ page_len = 0
  /\ idx = 0
  /\ rows = <<>>
  /\ upgraded = 0
  /\ seen_ids = {}
  /\ all_rows = <<>>
  /\ last = "none"
  /\ feed = CrawlItemSeq
  /\ ParseIdle
  /\ UnescIdle
  /\ ItemIdle
  /\ FetchIdle

\* lines 534-537: the category's id is not found in its url
SkipCategory ==
  /\ pc = "main"
  /\ cat <= MaxCats
  /\ cat' = cat + 1
  /\ UNCHANGED <<pc, page, page_len, idx, rows, upgraded, seen_ids, all_rows, last, feed,
                 parseVars, unescVars, itemVars, fetchVars>>

\* mutant of StartCategory: the pages are counted from 0
StartCategoryFromZero ==
  /\ pc = "main"
  /\ cat <= MaxCats
  /\ rows' = <<>>
  /\ upgraded' = 0
  /\ page' = 0
  /\ pc' = "fetch"
  /\ UNCHANGED <<cat, page_len, idx, seen_ids, all_rows, last, feed,
                 parseVars, unescVars, itemVars, fetchVars>>

\* line 539 and lines 463-466: crawl_category_via_api is entered
StartCategory ==
  /\ pc = "main"
  /\ cat <= MaxCats
  /\ rows' = <<>>
  /\ upgraded' = 0
  /\ page' = 1
  /\ pc' = "fetch"
  /\ UNCHANGED <<cat, page_len, idx, seen_ids, all_rows, last, feed,
                 parseVars, unescVars, itemVars, fetchVars>>

\* line 515 and line 540: the rows are returned and added to all_rows
ReturnRows(rs) ==
  /\ all_rows' = all_rows \o rs
  /\ rows' = <<>>
  /\ upgraded' = 0
  /\ page' = 0
  /\ page_len' = 0
  /\ idx' = 0
  /\ cat' = cat + 1
  /\ pc' = "main"

\* lines 468-471: the page is fetched; its items are read one at a time
FetchPage ==
  /\ pc = "fetch"
  /\ \E n \in 0..MaxItemsPerPage :
       IF n = 0
       THEN ReturnRows(rows) /\ UNCHANGED <<seen_ids, last, feed>>
       ELSE /\ page_len' = n
            /\ idx' = 1
            /\ pc' = "item"
            /\ UNCHANGED <<cat, page, rows, upgraded, seen_ids, all_rows, last, feed>>
  /\ UNCHANGED <<parseVars, unescVars, itemVars, fetchVars>>

\* lines 476-513 for one item of the page
ProcessItem ==
  /\ pc = "item"
  /\ \E item \in 1..Len(feed) :
     \E hi \in IF ProcessOutcome(item, <<>>, cat, rows, seen_ids, upgraded).appended
                THEN UpgradeResults ELSE {<<>>} :
       LET o == ProcessOutcome(item, hi, cat, rows, seen_ids, upgraded)
           full == Len(o.rows) >= TARGET_PER_CAT
       IN /\ seen_ids' = o.seen
          /\ last' = o.branch
          /\ IF ~(o.appended /\ full) /\ idx < page_len
             THEN /\ rows' = o.rows
                  /\ upgraded' = o.upgraded
                  /\ idx' = idx + 1
                  /\ UNCHANGED <<pc, cat, page, page_len, all_rows>>
             ELSE IF full \/ page = MAX_PAGES_PER_CAT
             THEN ReturnRows(o.rows)
             ELSE /\ rows' = o.rows
                  /\ upgraded' = o.upgraded
                  /\ page' = page + 1
                  /\ page_len' = 0
                  /\ idx' = 0
                  /\ pc' = "fetch"
                  /\ UNCHANGED <<cat, all_rows>>
  /\ UNCHANGED <<feed, parseVars, unescVars, itemVars, fetchVars>>

\* lines 542-548
SaveCsv ==
  /\ pc = "main"
  /\ cat > MaxCats
  /\ pc' = "saved"
  /\ UNCHANGED <<crawlVars, parseVars, unescVars, itemVars, fetchVars>>

NextCrawl == SkipCategory \/ StartCategory \/ FetchPage \/ ProcessItem \/ SaveCsv

SpecCrawl == InitCrawl /\ [][NextCrawl]_vars

\* every row emitted so far in the run
Emitted == all_rows \o rows

\* ------------------------------------------------------------------ claims
RECURSIVE OnePass(_, _)
\* the text with each escape sequence resolved once, read left to right
OnePass(s, p) ==
  IF p > Len(s) THEN <<>>
  ELSE IF IsHexEscAt(s, p) THEN <<Chr(SubSeq(s, p + 2, p + 5))>> \o OnePass(s, p + 6)
  ELSE IF s[p] = BS /\ At(s, p + 1) \in {DQ, SL, BS}
       THEN <<s[p + 1]>> \o OnePass(s, p + 2)
  ELSE IF s[p] = BS /\ At(s, p + 1) \in {"b", "f", "n", "r", "t"}
       THEN <<CASE s[p + 1] = "b" -> "<0x08>" [] s[p + 1] = "f" -> "<0x0c>"
                [] s[p + 1] = "n" -> "<LF>" [] s[p + 1] = "r" -> "<CR>"
                [] s[p + 1] = "t" -> "<TAB>">> \o OnePass(s, p + 2)
  ELSE <<s[p]>> \o OnePass(s, p + 1)

\* C4 as claimed: the normalizer resolves each escape sequence of its input
\* exactly once; an escaped backslash followed by a letter, or by u and four
\* hex digits, gives one backslash followed by that text.
C4_Claimed_EachEscapeOnce ==
  pc = "unescaped" => u_out = OnePass(u_in, 1)

\* the id the chunk's fields give: the id or objectid field, else the number
\* in href, else the number in url
ExpectedGid(c) ==
  CASE c.id \in {"id:0", "objectid:q0"} -> SomeInt(0)
    [] c.id \in {"id:1", "objectid:1"} -> SomeInt(1)
    [] c.id = "id:q2" -> SomeInt(2)
    [] OTHER -> IF c.href \in {"bg2", "exp2"} THEN SomeInt(2)
                ELSE IF c.url = "bg1" THEN SomeInt(1)
                ELSE NoInt

\* C8: the game id is the explicit id/objectid field when the item has one
\* (0 included), whatever href and url hold; else the number in href; else the
\* number in url; else none.
C8_IdResolutionOrder ==
  pc \in {"is_expansion", "item_done"} => gid_out = ExpectedGid(cdoc)

C8_Witness ==
  /\ pc = "is_expansion"
  /\ cdoc.id = "objectid:q0"
  /\ cdoc.href = "bg2"
  /\ cdoc.url = "bg1"
  /\ gid_out = SomeInt(0)

\* C5: in a whole run no game id is emitted in more than one row, and every
\* emitted id is in seen_ids, so that a later item resolving to it is dropped.
C5_AtMostOncePerId ==
  /\ \A i, j \in 1..Len(Emitted) : i # j => Emitted[i].gid # Emitted[j].gid
  /\ \A i \in 1..Len(Emitted) : Emitted[i].gid \in seen_ids

C5_Witness ==
  /\ last = "seen"
  /\ cat = 2
  /\ Len(all_rows) = 1
  /\ rows = <<>>
  /\ seen_ids = {all_rows[1].gid}

\* an expansion as the claim reads it
ClaimedExpansion(item) ==
  \/ LowerSeq(StrOrEmpty(item, "subtype")) = <<"boardgameexpansion">>
  \/ LowerSeq(StrOrEmpty(item, "type")) = <<"boardgameexpansion">>
  \/ HasExpansionSegment(StrOrEmpty(item, "href"))
  \/ HasExpansionSegment(StrOrEmpty(item, "url"))

\* C6 as claimed: no emitted row comes from an item whose subtype or whose
\* type is "boardgameexpansion" in any case, or whose href or url holds the
\* segment /boardgameexpansion/.
C6_Claimed_NoExpansionRow ==
  \A i \in 1..Len(Emitted) : ~ClaimedExpansion(Src(Emitted[i]))

HasIdSource(item) ==
  \/ Has(item, "id")
  \/ Has(item, "objectid")
  \/ IdReSearch(StrOrEmpty(item, "href")).ok
  \/ IdReSearch(StrOrEmpty(item, "url")).ok

RowsComplete ==
  \A i \in 1..Len(Emitted) :
    /\ Emitted[i].name # <<>>
    /\ Emitted[i].year # <<>>
    /\ HasIdSource(Src(Emitted[i]))
    /\ Emitted[i].gid > 0
    /\ StrOrEmpty(Src(Emitted[i]), "name") # <<>>
    /\ Has(Src(Emitted[i]), "yearpublished")

\* an item dropped for its id, name or year is followed by the next item
DropGoesOn ==
  (pc = "item" /\ idx < page_len /\ last' \in {"no id", "no name or year"} /\ idx' # idx)
    => (pc' = "item" /\ idx' = idx + 1 /\ page_len' = page_len /\ rows' = rows
        /\ all_rows' = all_rows)

\* C7: every emitted row comes from an item with a resolved id and has a
\* non-empty name and a non-empty year; an item without id, name or year gives
\* no row and the items after it are still processed.
C7_RowsHaveIdNameYear == []RowsComplete /\ [][DropGoesOn]_vars

C7_Witness ==
  /\ pc = "item"
  /\ idx = 2
  /\ last = "no name or year"
  /\ rows = <<>>
  /\ all_rows = <<>>

\* ------------------------------------- arrays with a malformed element
\* The well-formed objects such an array is made of (numbers in Tpl) and the
\* malformed elements, each with the groups closed before its break point:
\*   "stray"  }              "open"   {"a":{
\*   "extra"  {"a":"x"}}     "quote"  {"a":"x}
\* "none" is no element: the array is only cut.
ObjTpl == {1, 3, 4, 7}
BadKinds == {"stray", "open", "extra", "quote"}
BraceBad == {"stray", "open", "extra"}

BadToks(bad) ==
  CASE bad = "stray" -> <<RC>>
    [] bad = "open" -> <<LC, DQ, "a", DQ, CL, LC>>
    [] bad = "extra" -> <<LC, DQ, "a", DQ, CL, DQ, "x", DQ, RC, RC>>
    [] bad = "quote" -> <<LC, DQ, "a", DQ, CL, DQ, "x", RC>>

BadClosed(bad) ==
  IF bad = "extra" THEN << <<LC, DQ, "a", DQ, CL, DQ, "x", DQ, RC>> >> ELSE <<>>

RECURSIVE JoinElems(_)
JoinElems(es) ==
  IF es = <<>> THEN <<>>
  ELSE IF Len(es) = 1 THEN es[1]
  ELSE es[1] \o <<CO>> \o JoinElems(Tail(es))

ObjToks(elems) == [k \in 1..Len(elems) |-> Tpl[elems[k]].toks]

\* {"items":[ before , bad , after ]}  or, cut, the same without its end;
\* before holds at most MaxBefore objects, after at most one
BrokenDoc(before, bad, after, closed) ==
  [kind |-> "broken", before |-> before, bad |-> bad, after |-> after, closed |-> closed]

RenderBroken(d) ==
  <<LC, DQ, "items", DQ, CL, LB>>
    \o JoinElems(ObjToks(d.before)
                   \o (IF d.bad = "none" THEN <<>> ELSE <<BadToks(d.bad)>>)
                   \o ObjToks(d.after))
    \o (IF d.closed THEN <<RB, RC>> ELSE <<>>)

ObjSeqs(n) == UNION {[1..k -> ObjTpl] : k \in 0..n}

BrokenDocs(n) ==
  {BrokenDoc(b, bad, a, closed) :
     b \in ObjSeqs(n), bad \in BadKinds, a \in ObjSeqs(1), closed \in BOOLEAN}
    \cup {BrokenDoc(b, "none", <<>>, FALSE) : b \in ObjSeqs(n)}

InitBroken ==
  /\ \E d \in BrokenDocs(MaxBefore) : doc = d /\ text = RenderBroken(d)
  /\ pc = "locate"
  /\ array_text = NoSlice
  /\ raw_objs = <<>>
  /\ items = <<>>
  /\ UnescIdle
  /\ ItemIdle
  /\ FetchIdle
  /\ CrawlIdle

SpecBroken == InitBroken /\ [][NextParse]_vars

RECURSIVE IsSubseq(_, _)
\* the elements of a occur in b in the same order
IsSubseq(a, b) ==
  IF a = <<>> THEN TRUE
  ELSE IF b = <<>> THEN FALSE
  ELSE IF Head(a) = Head(b) THEN IsSubseq(Tail(a), Tail(b))
  ELSE IsSubseq(a, Tail(b))

\* the chunks of the objects closed before the break point
ClosedBeforeBreak(d) == ObjToks(d.before) \o BadClosed(d.bad)

\* C11 as claimed: in a closed array with one element malformed in its braces
\* (a stray closing brace, unbalanced braces), every well-formed object, those
\* after the malformed element too, gets a chunk and an item.
C11_Claimed_OthersStillExtracted ==
  (doc.closed /\ doc.bad \in BraceBad /\ pc = "done")
    => /\ IsSubseq(ObjToks(doc.before) \o ObjToks(doc.after), raw_objs)
       /\ Len(items) = Len(raw_objs)

\* C12 as claimed: when the array breaks (it is cut, or an element is
\* malformed) after some top-level objects were closed, there is one item for
\* every top-level object closed before the break point and nothing for the
\* text beyond it.
C12_Claimed_PartialResults ==
  (Len(doc.before) >= 1 /\ pc = "done")
    => /\ raw_objs = ClosedBeforeBreak(doc)
       /\ Len(items) = Len(raw_objs)

\* ------------------------------------------------ pick_image_from_item
\* The item dicts the function is given: each of the keys images_original,
\* imageurl, image absent, empty or set; "images" absent or a dict with each
\* of original, large, medium, small absent, empty or set.
DirectKeys == <<"images_original", "imageurl", "image">>
SizeKeys == <<"original", "large", "medium", "small">>
FieldStates == {"absent", "empty", "set"}

ImgVal(k) ==
  CASE k = "images_original" -> <<SL, SL, "cdn", SL, "o.jpg">>
    [] k = "imageurl" -> <<SL, "u.jpg">>
    [] k = "image" -> <<"i.jpg">>
    [] k = "original" -> <<"https://x/O.jpg">>
    [] k = "large" -> <<SL, "L.jpg">>
    [] k = "medium" -> <<"M.jpg">>
    [] k = "small" -> <<SL, SL, "s", SL, "S.jpg">>

Range(seq) == {seq[k] : k \in 1..Len(seq)}

DictOf(keys, c) ==
  [k \in {x \in Range(keys) : c[x] # "absent"} |-> IF c[k] = "empty" THEN <<>> ELSE ImgVal(k)]

ImageItems ==
  {DictOf(DirectKeys, c) : c \in [Range(DirectKeys) -> FieldStates]}
    \cup {DictOf(DirectKeys, c) @@ ("images" :> DictOf(SizeKeys, n)) :
            c \in [Range(DirectKeys) -> FieldStates], n \in [Range(SizeKeys) -> FieldStates]}

InitImage ==
  /\ pc = "pick_image"
  /\ it \in ImageItems
  /\ cdoc = NoChunkDoc
  /\ gid_out = NoInt
  /\ exp_out = FALSE
  /\ img_out = <<>>
  /\ ParseIdle
  /\ UnescIdle
  /\ CrawlIdle
  /\ FetchIdle

PickImage ==
  /\ pc = "pick_image"
  /\ img_out' = pick_image_from_item(it)
  /\ pc' = "image_done"
  /\ UNCHANGED <<cdoc, it, gid_out, exp_out, parseVars, unescVars, crawlVars, fetchVars>>

NextImage == PickImage

SpecImage == InitImage /\ [][NextImage]_vars

\* the candidates of an item in the order of the claim
Candidates(item) ==
  [k \in 1..3 |-> StrOrEmpty(item, DirectKeys[k])]
    \o (IF Has(item, "images")
        THEN [k \in 1..4 |-> StrOrEmpty(item["images"], SizeKeys[k])]
        ELSE <<>>)

RECURSIVE FirstNonEmpty(_)
FirstNonEmpty(cands) ==
  IF cands = <<>> THEN <<>>
  ELSE IF Head(cands) # <<>> THEN Head(cands)
  ELSE FirstNonEmpty(Tail(cands))

\* C13: the image picked is the first non-empty candidate in the order
\* images_original, imageurl, image, images.original, .large, .medium, .small
\* (made absolute by to_abs), and it is empty only when every candidate is
\* absent or empty.
C13_FirstNonEmptyCandidate ==
  pc = "image_done"
    => /\ img_out = to_abs(FirstNonEmpty(Candidates(it)))
       /\ img_out = <<>> <=> \A k \in 1..Len(Candidates(it)) : Candidates(it)[k] = <<>>

C13_Witness ==
  /\ pc = "image_done"
  /\ Has(it, "images_original") /\ it["images_original"] = <<>>
  /\ ~Has(it, "imageurl")
  /\ ~Has(it, "image")
  /\ Has(it, "images")
  /\ ~Has(it["images"], "original")
  /\ StrOrEmpty(it["images"], "large") = <<>>
  /\ StrOrEmpty(it["images"], "medium") # <<>>
  /\ StrOrEmpty(it["images"], "small") # <<>>
  /\ img_out = <<"M.jpg">>

\* ------------------------------- the image fields of one chunk (391-402)
\* A chunk {"id":1, ...} with the members imageurl, image and images, the
\* direct ones before or after images; images is {"thumb":"t.jpg"} with or
\* without "original".  A value is absent ("none"), "" ("empty"), a file name
\* ("set") or \/\/cdn\/ and the file name ("esc").
ImgOpts == {"none", "empty", "set", "esc"}

ImgName(k) ==
  CASE k = "imageurl" -> "u.jpg" [] k = "image" -> "i.jpg" [] k = "original" -> "o.jpg"

ImgRaw(k, opt) ==
  CASE opt = "empty" -> <<>>
    [] opt = "set" -> <<ImgName(k)>>
    [] opt = "esc" -> <<BS, SL, BS, SL, "cdn", BS, SL, ImgName(k)>>

\* the value the text denotes
ImgMeant(k, opt) ==
  CASE opt = "empty" -> <<>>
    [] opt = "set" -> <<ImgName(k)>>
    [] opt = "esc" -> <<SL, SL, "cdn", SL, ImgName(k)>>

ImgChunkDoc(imageurl, image, original, nested_first) ==
  [kind |-> "imgchunk", imageurl |-> imageurl, image |-> image, original |-> original,
   nested_first |-> nested_first]

RenderImgChunk(d) ==
  LET direct(k) == IF d[k] = "none" THEN <<>> ELSE << Field(k, Quoted(ImgRaw(k, d[k]))) >>
      nested == << <<DQ, "images", DQ, CL, LC>>
                     \o JoinElems(<< Field("thumb", Quoted(<<"t.jpg">>)) >>
                                    \o (IF d.original = "none" THEN <<>>
                                        ELSE << Field("original",
                                                      Quoted(ImgRaw("original", d.original))) >>))
                     \o <<RC>> >>
      directs == direct("imageurl") \o direct("image")
  IN <<LC>>
       \o JoinElems(<< Field("id", <<"1">>) >>
                      \o (IF d.nested_first THEN nested \o directs ELSE directs \o nested))
       \o <<RC>>

ImgChunkDocs ==
  {ImgChunkDoc(u, i, o, nf) : u \in ImgOpts, i \in ImgOpts, o \in ImgOpts, nf \in BOOLEAN}

\* lines 346-350: the chunks are there, the loop over them is to run
InitChunk ==
  /\ \E d \in ImgChunkDocs : doc = d /\ raw_objs = <<RenderImgChunk(d)>>
  /\ pc = "extract"
  /\ text = <<>>
  /\ array_text = NoSlice
  /\ items = <<>>
  /\ UnescIdle
  /\ ItemIdle
  /\ FetchIdle
  /\ CrawlIdle

NextChunk == Extract

SpecChunk == InitChunk /\ [][NextChunk]_vars

\* the image keys of an item
ImageKeysOf(item) == DOMAIN item \cap {"images_original", "imageurl", "image"}

\* C14 as claimed: the direct aliases imageurl, then image, go before the
\* nested images.original, which is used only when the chunk has no direct
\* alias.
C14_Claimed_DirectAliasFirst ==
  pc = "done"
    => IF doc.imageurl # "none"
       THEN /\ ImageKeysOf(items[1]) = {"imageurl"}
            /\ items[1]["imageurl"] = ImgMeant("imageurl", doc.imageurl)
       ELSE IF doc.image # "none"
       THEN /\ ImageKeysOf(items[1]) = {"image"}
            /\ items[1]["image"] = ImgMeant("image", doc.image)
       ELSE IF doc.original # "none"
       THEN /\ ImageKeysOf(items[1]) = {"images_original"}
            /\ items[1]["images_original"] = ImgMeant("original", doc.original)
       ELSE ImageKeysOf(items[1]) = {}

\* C14 as amended: the nested images.original goes before the direct aliases
\* imageurl, then image, which are used only when the chunk has no nested
\* images.original.
C14_NestedOriginalFirst ==
  pc = "done"
    => IF doc.original # "none"
       THEN /\ ImageKeysOf(items[1]) = {"images_original"}
            /\ items[1]["images_original"] = ImgMeant("original", doc.original)
       ELSE IF doc.imageurl # "none"
       THEN /\ ImageKeysOf(items[1]) = {"imageurl"}
            /\ items[1]["imageurl"] = ImgMeant("imageurl", doc.imageurl)
       ELSE IF doc.image # "none"
       THEN /\ ImageKeysOf(items[1]) = {"image"}
            /\ items[1]["image"] = ImgMeant("image", doc.image)
       ELSE ImageKeysOf(items[1]) = {}

C14_Witness ==
  /\ pc = "done"
  /\ doc.imageurl = "set"
  /\ doc.image = "set"
  /\ doc.original = "esc"
  /\ ~doc.nested_first
  /\ ImageKeysOf(items[1]) = {"images_original"}
  /\ items[1]["images_original"] = <<SL, SL, "cdn", SL, "o.jpg">>

\* ------------------------------------------- one page, from text to rows
\* The response {"items":[...]} with three chunks in any order:
\*   "game"  {"id":1,"name":"Catan","yearpublished":1995}     (or "objectid")
\*   "exp"   {"id":2,"subtype":"boardgameexpansion"}           (in either case)
\*   "noid"  {"name":"Azul","yearpublished":1995}  or  {"name":"Azul"}
Orders ==
  {o \in [1..3 -> {"game", "exp", "noid"}] : \A i, j \in 1..3 : i # j => o[i] # o[j]}

PageDoc(order, gid_key, sub, noid_year) ==
  [kind |-> "page", order |-> order, gid_key |-> gid_key, sub |-> sub,
   noid_year |-> noid_year]

PageChunk(d, what) ==
  CASE what = "game" ->
         <<LC>> \o JoinElems(<< Field(d.gid_key, <<"1">>), Field("name", Quoted(<<"Catan">>)),
                               Field("yearpublished", <<"1995">>) >>) \o <<RC>>
    [] what = "exp" ->
         <<LC>> \o JoinElems(<< Field("id", <<"2">>),
                               Field("subtype", Quoted(<<d.sub>>)) >>) \o <<RC>>
    [] what = "noid" ->
         <<LC>> \o JoinElems(<< Field("name", Quoted(<<"Azul">>)) >>
                               \o (IF d.noid_year
                                   THEN << Field("yearpublished", <<"1995">>) >>
                                   ELSE <<>>)) \o <<RC>>

RenderPage(d) ==
  <<LC, DQ, "items", DQ, CL, LB>>
    \o JoinElems([k \in 1..3 |-> PageChunk(d, d.order[k])])
    \o <<RB, RC>>

PageDocs ==
  {PageDoc(o, k, sub, nn) :
     o \in Orders, k \in {"id", "objectid"},
     sub \in {"boardgameexpansion", "BoardGameExpansion"}, nn \in BOOLEAN}

\* lines 463-468 and 430-446: page 1 of a category is asked for with nothing
\* seen yet; its response text is to be parsed
InitPage ==
  /\ \E d \in PageDocs : doc = d /\ text = RenderPage(d)
  /\ pc = "locate"
  /\ array_text = NoSlice
  /\ raw_objs = <<>>
  /\ items = <<>>
  /\ cat = 1
  /\ page = 1
  /\ page_len = 0
  /\ idx = 0
  /\ rows = <<>>
  /\ upgraded = 0
  /\ seen_ids = {}
  /\ all_rows = <<>>
  /\ last = "none"
  /\ feed = <<>>
  /\ UnescIdle
  /\ ItemIdle
  /\ FetchIdle

\* lines 446 and 468-476: the parsed items are the page
TakePage ==
  /\ pc = "done"
  /\ items # <<>>
  /\ feed' = items
  /\ page_len' = Len(items)
  /\ idx' = 1
  /\ pc' = "page_item"
  /\ UNCHANGED <<cat, page, rows, upgraded, seen_ids, all_rows, last,
                 parseVars, unescVars, itemVars, fetchVars>>

\* lines 476-509 for the item at idx
ProcessPageItem ==
  /\ pc = "page_item"
  /\ \E hi \in IF ProcessOutcome(idx, <<>>, cat, rows, seen_ids, upgraded).appended
               THEN UpgradeResults ELSE {<<>>} :
       LET o == ProcessOutcome(idx, hi, cat, rows, seen_ids, upgraded)
       IN /\ rows' = o.rows
          /\ seen_ids' = o.seen
          /\ upgraded' = o.upgraded
          /\ last' = o.branch
          /\ IF idx < page_len /\ ~(o.appended /\ Len(o.rows) >= TARGET_PER_CAT)
             THEN idx' = idx + 1 /\ pc' = pc
             ELSE idx' = idx /\ pc' = "page_done"
  /\ UNCHANGED <<cat, page, page_len, all_rows, feed, parseVars, unescVars, itemVars, fetchVars>>

NextPage == Locate \/ Split \/ Extract \/ TakePage \/ ProcessPageItem

SpecPage == InitPage /\ [][NextPage]_vars

\* what crawl_category_via_api has printed in the call: the page headers of
\* line 467 (no other line of the loop body prints)
PrintedLines == [k \in 1..page |-> <<"API page", k>>]

\* the printed lines that report a skipped item
SkipLines == {k \in 1..Len(PrintedLines) : PrintedLines[k][1] = "skip"}

\* one row, for the valid game, with its name and year
OneRowForGame ==
  /\ Len(rows) = 1
  /\ rows[1].name = <<"Catan">>
  /\ rows[1].year = <<"1995">>
  /\ rows[1].gid = 1
  /\ seen_ids = {1}

API_ATTEMPTS == 6

\* line 111 of bgg_detail_from_csv_api_regex.py: max_retry=6, which no caller
\* overrides (lines 248, 353, 406, 421)
max_retry == 6

\* the number of passes of the loop of each function
Attempts(f) == IF f = "api_fetch_page" THEN API_ATTEMPTS ELSE max_retry

\* lines 434 and 115: the statuses answered by a backoff and another attempt
BACKOFF_STATUS == {429, 502, 503, 504}

\* the statuses a server answers with in the runs
Statuses == {200, 404} \cup BACKOFF_STATUS

\* the texts a response with status 200 carries:
\*   1  the empty text    2  {"items":[{"id":1},{"id":2}]}    3  {"error":"x"}
FetchBodies ==
  << <<>>,
     <<LC>> \o Field("items", <<LB, LC>> \o Field("id", <<"1">>) \o <<RC, CO, LC>>
                                \o Field("id", <<"2">>) \o <<RC, RB>>) \o <<RC>>,
     <<LC>> \o Field("error", Quoted(<<"x">>)) \o <<RC>> >>

\* what one session.get meets: an exception raised by the request itself, or
\* a response with a status and a text
Raised == [raised |-> TRUE, status |-> 0, body |-> 1]
Response(st, b) == [raised |-> FALSE, status |-> st, body |-> b]
Outcomes ==
  {Raised} \cup {Response(st, 1) : st \in Statuses \ {200}}
           \cup {Response(200, b) : b \in 1..Len(FetchBodies)}

\* requests' raise_for_status: an HTTPError for the statuses 400 to 599
RaisesForStatus(st) == st >= 400 /\ st < 600

\* lines 323-406, the three steps Locate, Split and Extract in one
parse_api_items_from_text(text_) ==
  IF text_ = <<>> THEN <<>>
  ELSE LET a == LocateArray(text_)
       IN IF a.ok /\ a.val # <<>>
          THEN ParseItems(split_array_items_jsonish(a.val))
          ELSE <<>>

\* lines 443-445 and line 122: the value returned for a response that passed
Returned(f, r) ==
  IF f = "api_fetch_page" THEN parse_api_items_from_text(FetchBodies[r.body])
  ELSE FetchBodies[r.body]

\* mutant of AttemptOutcome: an exception ends the loop with the empty result
AttemptOutcomeGiveUp(f, r) ==
  IF r.raised THEN [returned |-> TRUE, val |-> <<>>]
  ELSE IF r.status \in BACKOFF_STATUS THEN [returned |-> FALSE, val |-> <<>>]
  ELSE IF RaisesForStatus(r.status) THEN [returned |-> TRUE, val |-> <<>>]
  ELSE [returned |-> TRUE, val |-> Returned(f, r)]

\* lines 431-449 and 113-125, one pass of the loop body: the request raises
\* (except branch), the status asks for a backoff (continue), raise_for_status
\* raises (except branch), or the value is returned
AttemptOutcome(f, r) ==
  IF r.raised THEN [returned |-> FALSE, val |-> <<>>]
  ELSE IF r.status \in BACKOFF_STATUS THEN [returned |-> FALSE, val |-> <<>>]
  ELSE IF RaisesForStatus(r.status) THEN [returned |-> FALSE, val |-> <<>>]
  ELSE [returned |-> TRUE, val |-> Returned(f, r)]

InitFetch ==
  /\ pc = "attempt"
  /\ fetch_fn \in {"api_fetch_page", "http_get_text"}
  /\ attempt = 0
  /\ resps = <<>>
  /\ fetched = <<>>
  /\ ParseIdle
  /\ UnescIdle
  /\ ItemIdle
  /\ CrawlIdle

\* lines 430-449 and 112-125: one pass of the loop; the waits of lines 435-437
\* and 447-449 take time and change nothing else
Attempt ==
  /\ pc = "attempt"
  /\ attempt < Attempts(fetch_fn)
  /\ \E r \in Outcomes :
       LET o == AttemptOutcome(fetch_fn, r)
       IN /\ resps' = Append(resps, r)
          /\ IF o.returned
             THEN fetched' = o.val /\ pc' = "returned" /\ attempt' = attempt
             ELSE attempt' = attempt + 1 /\ UNCHANGED <<pc, fetched>>
  /\ UNCHANGED <<fetch_fn, parseVars, unescVars, itemVars, crawlVars>>

\* lines 450 and 126: the loop is exhausted
Exhausted ==
  /\ pc = "attempt"
  /\ attempt >= Attempts(fetch_fn)
  /\ fetched' = <<>>
  /\ pc' = "returned"
  /\ UNCHANGED <<fetch_fn, attempt, resps, parseVars, unescVars, itemVars, crawlVars>>

NextFetch == Attempt \/ Exhausted

SpecFetch == InitFetch /\ [][NextFetch]_vars /\ WF_vars(NextFetch)

\* an attempt that was rate-limited or failed: the request raised, or its
\* response was a 429/502/503/504, or an error status for which
\* raise_for_status raised
Failed(r) == r.raised \/ r.status \in {429, 502, 503, 504} \/ r.status >= 400

\* the parsed result of a response that passed: the items of its text for
\* api_fetch_page ([] for a text without items), its text for http_get_text
ParsedResult(f, r) ==
  IF f = "http_get_text" THEN FetchBodies[r.body]
  ELSE IF r.body = 2
       THEN << ("id" :> 1) @@ ("objectid" :> 1), ("id" :> 2) @@ ("objectid" :> 2) >>
  ELSE <<>>

FetchBounded ==
  /\ Len(resps) <= 6
  /\ \A i \in 1..(Len(resps) - 1) : Failed(resps[i])
  /\ pc = "returned" =>
       IF Len(resps) > 0 /\ ~Failed(resps[Len(resps)])
       THEN fetched = ParsedResult(fetch_fn, resps[Len(resps)])
       ELSE Len(resps) = 6 /\ fetched = <<>>

\* C16: each fetch loop ends, after at most 6 requests; it returns the parsed
\* result of the first attempt that was neither a 429/502/503/504 response nor
\* an exception, no request being made after it, and the empty result once
\* all 6 attempts were rate-limited or failed.
C16_FetchLoopsEnd == []FetchBounded /\ <>(pc = "returned")

C16_Witness ==
  /\ pc = "returned"
  /\ fetch_fn = "api_fetch_page"
  /\ Len(resps) = 6
  /\ resps[1] = Raised
  /\ resps[2] = Response(429, 1)
  /\ resps[5] = Response(404, 1)
  /\ resps[6] = Response(503, 1)
  /\ fetched = <<>>

\* ------------------------------------------------- the ids seen in a run
\* the ids of the rows emitted so far
EmittedIds == {Emitted[i].gid : i \in 1..Len(Emitted)}

\* an item with complete fields: no expansion, an id, a name and a year
CompleteItem(item) ==
  /\ ~is_expansion(item)
  /\ get_game_id(item).ok
  /\ get_game_id(item).val # 0
  /\ ItemName(item) # <<>>
  /\ parse_year(item) # <<>>

\* every item with complete fields whose id is not in seen_ids gives a row
StillEmittable ==
  \A k \in 1..Len(feed) :
    (CompleteItem(feed[k]) /\ get_game_id(feed[k]).val \notin seen_ids)
      => ProcessOutcome(k, <<>>, cat, rows, seen_ids, upgraded).appended

\* one step of the run, as seen_ids sees it
SeenStep ==
  /\ seen_ids \subseteq seen_ids'
  /\ seen_ids' # seen_ids =>
       /\ last' = "row"
       /\ Len(Emitted') = Len(Emitted) + 1
       /\ SubSeq(Emitted', 1, Len(Emitted)) = Emitted
       /\ Emitted'[Len(Emitted')].gid \notin seen_ids
       /\ seen_ids' = seen_ids \cup {Emitted'[Len(Emitted')].gid}
  /\ Emitted' # Emitted => seen_ids' # seen_ids
  /\ (pc = "item" /\ last' \in {"expansion", "no id", "no name or year"}) =>
       seen_ids' = seen_ids

\* C17: seen_ids holds exactly the ids of the emitted rows; an id is added
\* only in the step that appends a row for it; a dropped item (expansion, no
\* name, no year) leaves seen_ids as it was, so that a later item with the
\* same id and complete fields is still emitted; no id is ever removed.
C17_SeenIdsAreEmittedIds ==
  [](seen_ids = EmittedIds /\ StillEmittable) /\ [][SeenStep]_vars

C17_Witness ==
  /\ pc = "item"
  /\ cat = 2
  /\ idx = 2
  /\ last = "no name or year"
  /\ rows = <<>>
  /\ Len(all_rows) = 1
  /\ seen_ids = {2}
  /\ \E k \in 1..Len(feed) :
       /\ CompleteItem(feed[k])
       /\ get_game_id(feed[k]).val = 1
       /\ ProcessOutcome(k, <<>>, cat, rows, seen_ids, upgraded).seen = {1, 2}

\* ------------------------------------------------ the pages of one call
\* what holds whenever a page is about to be requested, and of the rows
PagesBounded ==
  /\ pc = "fetch" => /\ page \in 1..MAX_PAGES_PER_CAT
                     /\ Len(rows) < TARGET_PER_CAT
  /\ Len(rows) <= TARGET_PER_CAT

\* one step of the run, as the pages of a call see it
PageStep ==
  /\ (pc = "main" /\ pc' = "fetch") => page' = 1
  /\ (pc = "item" /\ pc' = "fetch") =>
       /\ page' = page + 1
       /\ idx = page_len
       /\ Len(rows') < TARGET_PER_CAT
  /\ (pc = "fetch" /\ pc' = "item") => (page' = page /\ page_len' > 0)
  /\ (pc = "fetch" /\ pc' = "fetch") => UNCHANGED vars
  /\ (pc = "fetch" /\ pc' = "main") => (cat' = cat + 1 /\ all_rows' = all_rows \o rows)
  /\ (pc \in {"fetch", "item"} /\ pc' = "main") =>
       /\ Len(all_rows') - Len(all_rows) <= TARGET_PER_CAT
       /\ cat' = cat + 1
  /\ (pc = "item" /\ Len(rows') >= TARGET_PER_CAT) => pc' = "main"

\* C18: a call requests the pages 1, 2, ... in order and at most
\* MAX_PAGES_PER_CAT of them, requests no page after an empty page or once the
\* rows have reached TARGET_PER_CAT, and returns at most TARGET_PER_CAT rows.
C18_PagesInOrderAndBounded == []PagesBounded /\ [][PageStep]_vars

C18_Witness ==
  /\ pc = "fetch"
  /\ page = MAX_PAGES_PER_CAT
  /\ Len(rows) = 1
  /\ last = "seen"

====
